---------------------------- MODULE Spec2Model ----------------------------
(***************************************************************************)
(* Model of the streaming transcript pipeline of server/main.py:           *)
(* entrypoint's closures (_extract_complete_sentences,                     *)
(* _translate_sentences, _delayed_translation, _forward_transcription),    *)
(* class Translator, and the LLM settings of server/web_server.py.         *)
(*                                                                         *)
(* A text is a sequence of one-character strings.  Every action is one     *)
(* segment of a coroutine between two suspension points (await), which     *)
(* asyncio runs without interruption.                                      *)
(***************************************************************************)
EXTENDS Integers, Sequences, FiniteSets, TLC

(***************************************************************************)
(* Bounds of the model.                                                    *)
(***************************************************************************)
\* Final-transcript events the recognizer streams deliver in one run.
MaxEvents == 3
\* Largest context_sentences value the settings API is given.
MaxPairs == 2
\* Final-transcript events two concurrent tracks deliver in one run.
MaxRoomEvents == 2
\* Final-transcript events made of complete sentences in one run.
MaxSentenceEvents == 2
\* Final-transcript events delivered while display clients come and go.
MaxDisplayEvents == 1
\* Final-transcript events of a run whose timers and calls are scheduled
\* fairly.
MaxLiveEvents == 2
\* Language requests, and final events, of the run with language requests.
MaxRequests == 2
MaxLanguageEvents == 1
\* Length of the texts given to _extract_complete_sentences on its own.
MaxLen == 3
\* Final-transcript events of a run in which the LLM settings are changed.
MaxPolicyEvents == 1
\* Final-transcript events of a run in which the recognizer revises a text.
MaxRevisionEvents == 2
\* Final-transcript events of a run in which calls and publishes fail.
MaxFailureEvents == 2
\* Final-transcript events of a run with interim transcripts in between.
MaxFinalEvents == 2

(***************************************************************************)
(* Program constants.                                                      *)
(***************************************************************************)
\* LLMSettings.context_sentences: int = 10 (Translator's max_context_pairs,
\* used when the settings cannot be read, has the same value).
default_context_sentences == 10

(***************************************************************************)
(* Text: str.strip, str.startswith, the in operator, str.split.            *)
(***************************************************************************)
Whitespace == {" ", "\n"}
\* The characters of sentence_pattern: . ! ? and the Arabic question mark,
\* which is written "q" here.
SentenceEnd == {".", "!", "?", "q"}

RECURSIVE LStrip(_)
LStrip(t) ==
    IF t # <<>> /\ Head(t) \in Whitespace THEN LStrip(Tail(t)) ELSE t

RECURSIVE RStrip(_)
RStrip(t) ==
    IF t # <<>> /\ t[Len(t)] \in Whitespace
    THEN RStrip(SubSeq(t, 1, Len(t) - 1)) ELSE t

\* str.strip()
Strip(t) == RStrip(LStrip(t))

\* t.startswith(p)
StartsWith(t, p) == Len(p) <= Len(t) /\ SubSeq(t, 1, Len(p)) = p

\* p in t
Contains(t, p) ==
    \E i \in 0..(Len(t) - Len(p)) : SubSeq(t, i + 1, i + Len(p)) = p

\* len(t.split()): the number of maximal runs of non-whitespace characters.
WordCount(t) ==
    Cardinality({i \in 1..Len(t) :
        /\ t[i] \notin Whitespace
        /\ (i = 1 \/ t[i - 1] \in Whitespace)})

(***************************************************************************)
(* _extract_complete_sentences: re.split on runs of sentence-ending marks, *)
(* each run glued to the text before it; what follows the last run is the  *)
(* remaining text.                                                         *)
(***************************************************************************)
\* Index of the first sentence-ending character of t, or 0.
FirstEnd(t) ==
    IF \E i \in 1..Len(t) : t[i] \in SentenceEnd
    THEN CHOOSE i \in 1..Len(t) :
            /\ t[i] \in SentenceEnd
            /\ \A j \in 1..(i - 1) : t[j] \notin SentenceEnd
    ELSE 0

\* Index of the last character of the run of marks that starts at i.
RunEnd(t, i) ==
    CHOOSE j \in i..Len(t) :
        /\ \A k \in i..j : t[k] \in SentenceEnd
        /\ (j = Len(t) \/ t[j + 1] \notin SentenceEnd)

RECURSIVE SplitSentences(_)
\* The while loop over parts: <<complete_sentences, remaining_text>>.
SplitSentences(t) ==
    LET i == FirstEnd(t) IN
    IF i = 0 THEN <<<<>>, Strip(t)>>
    ELSE LET j == RunEnd(t, i)
             sentence == Strip(SubSeq(t, 1, j))
             rest == SplitSentences(SubSeq(t, j + 1, Len(t)))
         IN  <<(IF sentence # <<>> THEN <<sentence>> ELSE <<>>) \o rest[1],
               rest[2]>>

\* _extract_complete_sentences(text)
ExtractCompleteSentences(t) ==
    IF Strip(t) = <<>> THEN <<<<>>, <<>>>> ELSE SplitSentences(t)


(***************************************************************************)
(* Domains.                                                                *)
(***************************************************************************)
\* source_language = "ar"
source_language == "ar"
\* The target languages of the languages table that the model requests ("nl"
\* is the translator entrypoint always creates); "xx" is a code the table
\* does not hold.
Langs == {"nl", "en"}
languages == Langs \cup {source_language}
RequestedLangs == languages \cup {"xx"}
\* Subscribed audio tracks: each gets its own _forward_transcription task.
Sessions == {1, 2}

\* The texts of the final-transcript events the recognizer delivers.
FinalTexts ==
    { <<"a", " ", "b">>,                 \* no sentence end
      <<"a", " ", "b", ".">>,            \* extends "a b", one sentence
      <<"c", " ", "d">>,                 \* unrelated to "a b", two words
      <<"c">>,                           \* a single word
      <<" ">> }                          \* empty once stripped

\* The texts two concurrent tracks deliver.
RoomTexts ==
    { <<"a", " ", "b">>, <<"a", " ", "b", ".">>, <<"c", " ", "d">> }

\* Texts made of complete sentences only.
SentenceTexts ==
    { <<"b", "?">>, <<"a", ".", " ", "b", "!">> }

\* The texts delivered while display clients come and go: one sentence, and
\* a text with no sentence end.
DisplayTexts ==
    { <<"b", "?">>, <<"a", " ", "b">> }

\* The texts of a recognizer that revises an utterance: a sentence with an
\* unfinished remainder, and a longer version of the same text.
RevisionTexts ==
    { <<"a", ".", " ", "b">>, <<"a", ".", " ", "b", " ", "c">> }

\* The texts of the interim-transcript events: a word, and a text that is
\* empty once stripped.
InterimTexts == { <<"a">>, <<" ">> }

VARIABLES
    translators,              \* keys of the translators dict
    message_history,          \* Translator.message_history, per language
    context,                  \* Translator.context (the request), per language
    settings,                 \* web_server.current_settings.llm
    accumulated_text,         \* entrypoint's nonlocal accumulated_text
    last_final_transcript,    \* entrypoint's nonlocal last_final_transcript
    pending_translation_task, \* 0 (None) or the index of a timer task
    timers,                   \* the _delayed_translation tasks created so far
    sess,                     \* the _forward_transcription task of each track
    calls,                    \* the translate calls of each gather
    nEvents,                  \* final events delivered so far
    dispatched,               \* per language, the units translate was called with
    published,                \* per language, the texts publish_transcription sent
    connected_displays,       \* the global set of display websockets
    displays,                 \* the connection of each display websocket
    broadcasts,               \* the broadcast_to_displays tasks created so far
    requested,                \* the captions_language requests handled so far
    seg_text,                 \* a text given to _extract_complete_sentences
    seg_result,               \* what it returned for seg_text, once called
    seg_again,                \* what it returned for the result put together
    begun                     \* per language, the policy and the history that
                              \* the latest translate call found when it began

vars == <<translators, message_history, context, settings, accumulated_text,
          last_final_transcript, pending_translation_task, timers, sess,
          calls, nEvents, dispatched, published, connected_displays,
          displays, broadcasts, requested, seg_text, seg_result, seg_again,
          begun>>

segVars == <<seg_text, seg_result, seg_again>>

pipelineVars == <<translators, message_history, context, settings,
                  accumulated_text, last_final_transcript,
                  pending_translation_task, timers, sess, calls, nEvents,
                  dispatched, published, connected_displays, displays,
                  broadcasts, requested, begun>>

translatorVars == <<message_history, context, dispatched, begun>>

registryVars == <<connected_displays, displays, broadcasts>>

(***************************************************************************)
(* Translator                                                              *)
(***************************************************************************)
\* Translator.system_message, fixed at creation.
SystemMessage(l) == <<"system", <<"prompt", l>>>>

\* What the external LLM answers for unit u in language l.
Translation(l, u) == <<l>> \o u

\* Translator._rebuild_context
RebuildContext(l, h) == <<SystemMessage(l)>> \o h

\* Python's h[-m:] for a list h.
SliceLast(h, m) ==
    IF m = 0 \/ m >= Len(h) THEN h ELSE SubSeq(h, Len(h) - m + 1, Len(h))

\* Translator._maintain_context_window on history h and context c:
\* <<message_history, context>> afterwards.
MaintainContextWindow(l, h, c) ==
    IF ~settings.context_enabled
    THEN <<<<>>, RebuildContext(l, <<>>)>>
    ELSE LET max_conversation_messages == settings.context_sentences * 2 IN
         IF Len(h) > max_conversation_messages
         THEN LET kept == SliceLast(h, max_conversation_messages)
              IN  <<kept, RebuildContext(l, kept)>>
         ELSE <<h, c>>

\* Translator.translate up to the LLM call: <<message_history, context>>.
TranslateBegin(l, message) ==
    LET m == MaintainContextWindow(
                 l, Append(message_history[l], <<"user", message>>), context[l])
    IN  <<m[1], RebuildContext(l, m[1])>>

\* Line 249 left out.
TranslateEndUntrimmed(l, translated_message) ==
    <<Append(message_history[l], <<"assistant", translated_message>>),
      context[l]>>

\* Translator.translate after the LLM stream ended with translated_message.
TranslateEnd(l, translated_message) ==
    MaintainContextWindow(
        l, Append(message_history[l], <<"assistant", translated_message>>),
        context[l])

(***************************************************************************)
(* The display registry: register_display and broadcast_to_displays        *)
(***************************************************************************)
\* The websockets of the display clients; each connects once.
Displays == {"w1", "w2"}

\* What websocket.send does: it returns, raises ConnectionClosed, or raises
\* another exception.
SendOutcomes == {"ok", "closed", "error"}

\* Only ConnectionClosed handled.
CaughtClosedOnly(outcome) == outcome = "closed"

\* The except clauses of lines 78-82: both keep the loop going.
Caught(outcome) == outcome \in {"closed", "error"}

\* Line 85 left out.
RemoveNothing(cd, snap, disconnected) == cd

\* Line 85 as an assignment from the copy.
RemoveFromSnapshot(cd, snap, disconnected) == snap \ disconnected

\* Line 85, connected_displays -= disconnected: the set the global holds
\* now (cd) is updated in place; snap is the copy the loop iterated.
RemoveDisconnected(cd, snap, disconnected) == cd \ disconnected

\* asyncio.create_task(broadcast_to_displays(message_type, language, text))
NewBroadcast(message_type, language, text) ==
    [type |-> message_type, language |-> language, text |-> text,
     st |-> "created", present |-> {}, todo |-> {}, delivered |-> {},
     disconnected |-> {}]

BroadcastIds == 1..Len(broadcasts)

\* The websockets broadcast b has called send on.
Attempted(b) == broadcasts[b].present \ broadcasts[b].todo

\* The websockets whose send raised in broadcast b.
Failed(b) == Attempted(b) \ broadcasts[b].delivered

\* register_display up to wait_closed: line 47.
RegisterDisplay(w) ==
    /\ displays[w] = "new"
    /\ displays' = [displays EXCEPT ![w] = "open"]
    /\ connected_displays' = connected_displays \cup {w}
    /\ UNCHANGED <<translators, requested, segVars,
                   message_history, context, settings,
                   accumulated_text, last_final_transcript,
                   pending_translation_task, timers, sess, calls, nEvents,
                   dispatched, begun, published, broadcasts>>

\* wait_closed returned: line 52.
DisplayClosed(w) ==
    /\ displays[w] = "open"
    /\ displays' = [displays EXCEPT ![w] = "closed"]
    /\ connected_displays' = connected_displays \ {w}
    /\ UNCHANGED <<translators, requested, segVars,
                   message_history, context, settings,
                   accumulated_text, last_final_transcript,
                   pending_translation_task, timers, sess, calls, nEvents,
                   dispatched, begun, published, broadcasts>>

\* The task starts: lines 59-75, up to the first send.
BroadcastStart(b) ==
    /\ broadcasts[b].st = "created"
    /\ broadcasts' = [broadcasts EXCEPT ![b] =
            IF connected_displays = {}
            THEN [@ EXCEPT !.st = "returned"]
            ELSE [@ EXCEPT !.st = "sending",
                           !.present = connected_displays,
                           !.todo = connected_displays]]
    /\ UNCHANGED <<translators, requested, segVars,
                   message_history, context, settings,
                   accumulated_text, last_final_transcript,
                   pending_translation_task, timers, sess, calls, nEvents,
                   dispatched, begun, published, connected_displays, displays>>

\* One iteration of the loop, lines 75-82: the send to w ended with outcome.
\* A closed websocket raises ConnectionClosed.
BroadcastSend(b, w, outcome) ==
    /\ broadcasts[b].st = "sending"
    /\ w \in broadcasts[b].todo
    /\ displays[w] = "closed" => outcome = "closed"
    /\ broadcasts' = [broadcasts EXCEPT ![b] =
            IF outcome = "ok"
            THEN [@ EXCEPT !.todo = @ \ {w},
                           !.delivered = @ \cup {w}]
            ELSE IF Caught(outcome)
            THEN [@ EXCEPT !.todo = @ \ {w},
                           !.disconnected = @ \cup {w}]
            ELSE [@ EXCEPT !.todo = @ \ {w}, !.st = "raised"]]
    /\ UNCHANGED <<translators, requested, segVars,
                   message_history, context, settings,
                   accumulated_text, last_final_transcript,
                   pending_translation_task, timers, sess, calls, nEvents,
                   dispatched, begun, published, connected_displays, displays>>

\* The loop is over: line 85, and the task returns.
BroadcastEnd(b) ==
    /\ broadcasts[b].st = "sending"
    /\ broadcasts[b].todo = {}
    /\ broadcasts' = [broadcasts EXCEPT ![b].st = "returned"]
    /\ connected_displays' =
            RemoveDisconnected(connected_displays, broadcasts[b].present,
                               broadcasts[b].disconnected)
    /\ UNCHANGED <<translators, requested, segVars,
                   message_history, context, settings,
                   accumulated_text, last_final_transcript,
                   pending_translation_task, timers, sess, calls, nEvents,
                   dispatched, begun, published, displays>>

(***************************************************************************)
(* Tasks                                                                   *)
(***************************************************************************)
\* A translate call: waiting on the LLM stream, waiting on one that never
\* answers, waiting on publish_transcription (of a translation, or of the
\* empty text the stream ended with), or over.
InFlight == {"llm", "hung", "pub", "pub_empty"}
Over == {"done", "llm_failed", "pub_failed", "cancelled"}
NoCalls == [l \in Langs |-> "none"]

Fwd(s) == <<"fwd", s>>
Timer(k) == <<"timer", k>>
TimerIds == 1..Len(timers)
Owners == {Fwd(s) : s \in Sessions} \cup {Timer(k) : k \in TimerIds}

\* The sentence an owner's gather is translating.
Unit(o) ==
    IF o[1] = "fwd" THEN Head(sess[o[2]].sentences) ELSE timers[o[2]].text

\* gather without return_exceptions: the first exception ends the wait.
GatherRaisesFirst(cl, o) ==
    \/ \A l \in Langs : cl[o][l] \notin {"llm", "hung", "pub", "pub_empty"}
    \/ \E l \in Langs : cl[o][l] \in {"llm_failed", "pub_failed"}

\* gather without return_exceptions: an exception of a call leaves the
\* awaiting task, which never goes on.
GatherPropagates(cl, o) ==
    \A l \in Langs :
        cl[o][l] \notin {"llm", "hung", "pub", "pub_empty",
                         "llm_failed", "pub_failed"}

\* asyncio.gather returned: every translate call of o finished or failed.
GatherOver(cl, o) == \A l \in Langs : cl[o][l] \notin InFlight

\* The cancel() call left out.
CancelTimerForgotten(tm, k) == tm

\* Task.cancel() on timer k, on the timers and on the calls.
CancelTimer(tm, k) ==
    IF k = 0 THEN tm
    ELSE [tm EXCEPT ![k].st =
            CASE @ = "sleeping" -> "cancelled"
              [] @ = "dispatching" -> "aborted"
              [] OTHER -> @]

CancelCalls(cl, tm, k) ==
    IF k # 0 /\ tm[k].st = "dispatching"
    THEN [cl EXCEPT ![Timer(k)] =
            [l \in Langs |-> IF @[l] \in InFlight THEN "cancelled" ELSE @[l]]]
    ELSE cl

\* A timer that never finds itself current.
TaskNeverCurrent(k) == TRUE

\* Task.cancelled()
TaskCancelled(k) == timers[k].st = "cancelled"

(***************************************************************************)
(* _translate_sentences: the calls of one sentence, started for every      *)
(* translator of the dict.                                                 *)
(***************************************************************************)
StartCalls(cl, o, sentence) ==
    /\ calls' = [cl EXCEPT ![o] =
            [l \in Langs |-> IF l \in translators THEN "llm" ELSE "none"]]
    /\ message_history' = [l \in Langs |->
            IF l \in translators THEN TranslateBegin(l, sentence)[1]
            ELSE message_history[l]]
    /\ context' = [l \in Langs |->
            IF l \in translators THEN TranslateBegin(l, sentence)[2]
            ELSE context[l]]
    /\ dispatched' = [l \in Langs |->
            IF l \in translators THEN Append(dispatched[l], sentence)
            ELSE dispatched[l]]
    /\ begun' = [l \in Langs |->
            IF l \in translators
            THEN [policy |-> settings, history |-> message_history[l]]
            ELSE begun[l]]


(***************************************************************************)
(* _forward_transcription                                                  *)
(***************************************************************************)
Receiving == [pc |-> "recv", final_text |-> <<>>, sentences |-> <<>>,
              remaining_text |-> <<>>, seen |-> 0]

\* History: the timers created before the event that session s has now
\* finished handling; how records whether the event was accepted.
MarkProcessed(tm, upto, how) ==
    [k \in 1..Len(tm) |->
        IF k <= upto /\ tm[k].processed # "accepted"
        THEN [tm[k] EXCEPT !.processed = how] ELSE tm[k]]

\* History: the timers still sleeping when an accepted final event arrives.
MarkOvertaken(tm) ==
    [k \in 1..Len(tm) |->
        IF tm[k].st = "sleeping" THEN [tm[k] EXCEPT !.over = TRUE] ELSE tm[k]]

\* asyncio.create_task(_delayed_translation(text, translation_delay))
NewTimer(s, text) ==
    [st |-> "sleeping", text |-> text, session |-> s, over |-> FALSE,
     processed |-> "none"]

\* A timer is armed: its task is live and was not cancelled.
Armed(k) == timers[k].st \in {"sleeping", "dispatching"}

\* Lines 516-532, with acc the accumulated text, tm the timers and cl the
\* calls at that point; the handler then waits for the next event.
TimerPhase(s, acc, tm, cl) ==
    LET pend == pending_translation_task
        tm1 == CancelTimer(tm, pend)
        cl1 == CancelCalls(cl, tm, pend)
    IN  /\ accumulated_text' = acc
        /\ sess' = [sess EXCEPT ![s] = Receiving]
        /\ IF Strip(acc) # <<>>
           THEN /\ timers' = MarkProcessed(Append(tm1, NewTimer(s, acc)),
                                           sess[s].seen, "accepted")
                /\ calls' = cl1 @@ (Timer(Len(tm) + 1) :> NoCalls)
                /\ pending_translation_task' = Len(tm) + 1
           ELSE /\ timers' = MarkProcessed(tm1, sess[s].seen, "accepted")
                /\ calls' = cl1
                /\ pending_translation_task' = 0

\* Lines 497-514 up to the await of _translate_sentences, or through lines
\* 516-532 when the accumulated text holds no complete sentence.
SegmentPhase(s, acc, tm, cl) ==
    LET ex == ExtractCompleteSentences(acc)
        pend == pending_translation_task
    IN  IF ex[1] # <<>>
        THEN /\ accumulated_text' = acc
             /\ timers' = CancelTimer(tm, pend)
             /\ pending_translation_task' = 0
             /\ sess' = [sess EXCEPT ![s].pc = "gather",
                                     ![s].sentences = ex[1],
                                     ![s].remaining_text = ex[2]]
             /\ StartCalls(CancelCalls(cl, tm, pend), Fwd(s), Head(ex[1]))
        ELSE /\ TimerPhase(s, acc, tm, cl)
             /\ UNCHANGED translatorVars

\* Lines 471-478: the new text extends or contains the accumulated text.
Extends(acc, final_text) ==
    \/ StartsWith(final_text, Strip(acc))
    \/ Contains(final_text, Strip(acc))

\* Lines 479-481: a single word is appended.
Continues(acc, final_text) ==
    WordCount(final_text) = 1 /\ WordCount(acc) >= 1

\* Lines 471-493 when nothing is awaited: the accumulated text afterwards.
MergedText(acc, final_text) ==
    IF acc = <<>> THEN final_text
    ELSE IF Extends(acc, final_text) THEN final_text
    ELSE IF Continues(acc, final_text)
         THEN Strip(acc) \o <<" ">> \o final_text
    ELSE final_text

\* Lines 482-487: unrelated new text while the accumulated text holds
\* complete sentences, which are translated first.
FlushesFirst(acc, final_text) ==
    /\ acc # <<>>
    /\ ~Extends(acc, final_text)
    /\ ~Continues(acc, final_text)
    /\ Strip(acc) # <<>>
    /\ ExtractCompleteSentences(acc)[1] # <<>>

\* on_track_subscribed -> transcribe_track: a forwarding task starts.
TrackSubscribed(s) ==
    /\ sess[s].pc = "idle"
    /\ sess' = [sess EXCEPT ![s] = Receiving]
    /\ UNCHANGED <<translators, requested, segVars,
                   message_history, context, settings,
                   accumulated_text, last_final_transcript,
                   pending_translation_task, timers, calls, nEvents,
                   dispatched, begun, published>>
    /\ UNCHANGED registryVars

\* The check of line 443 left out.
AcceptedAlways(final_text) == TRUE

\* Line 443: the text is not empty and differs from the last accepted one.
Accepted(final_text) ==
    final_text # <<>> /\ final_text # last_final_transcript

\* A FINAL_TRANSCRIPT event: lines 437-444, and 535-536 for an empty or
\* repeated text.
RecvFinal(s, text) ==
    LET final_text == Strip(text) IN
    /\ sess[s].pc = "recv"
    /\ nEvents < MaxEvents
    /\ nEvents' = nEvents + 1
    /\ IF Accepted(final_text)
       THEN /\ last_final_transcript' = final_text
            /\ sess' = [sess EXCEPT ![s].pc = "pub_final",
                                    ![s].final_text = final_text,
                                    ![s].seen = Len(timers)]
            /\ timers' = MarkOvertaken(timers)
       ELSE /\ timers' = MarkProcessed(timers, Len(timers), "skipped")
            /\ UNCHANGED <<last_final_transcript, sess>>
    /\ UNCHANGED <<translators, requested, segVars,
                   message_history, context, settings,
                   accumulated_text, pending_translation_task, calls,
                   dispatched, begun, published>>
    /\ UNCHANGED registryVars

\* publish_transcription of the source text returned (ok) or raised; then
\* lines 469-532 up to the next await.
PublishFinalDone(s, ok) ==
    LET final_text == sess[s].final_text
        acc == accumulated_text
    IN
    /\ sess[s].pc = "pub_final"
    /\ published' = IF ok
            THEN [published EXCEPT ![source_language] = Append(@, final_text)]
            ELSE published
    /\ IF translators = {}
       THEN /\ sess' = [sess EXCEPT ![s] = Receiving]
            /\ UNCHANGED <<accumulated_text, pending_translation_task,
                           timers, calls, translatorVars>>
       ELSE IF FlushesFirst(acc, final_text)
       THEN /\ sess' = [sess EXCEPT ![s].pc = "flush",
                    ![s].sentences = ExtractCompleteSentences(acc)[1]]
            /\ StartCalls(calls, Fwd(s),
                          Head(ExtractCompleteSentences(acc)[1]))
            /\ UNCHANGED <<accumulated_text, pending_translation_task,
                           timers>>
       ELSE \E merged \in {MergedText(acc, final_text)} :
                SegmentPhase(s, merged, timers, calls)
    /\ UNCHANGED <<translators, requested, segVars,
                   settings, last_final_transcript, nEvents>>
    /\ broadcasts' = IF ok
            THEN Append(broadcasts,
                        NewBroadcast("transcription", source_language,
                                     final_text))
            ELSE broadcasts
    /\ UNCHANGED <<connected_displays, displays>>

\* asyncio.gather of the forwarding task returned: the next sentence, or the
\* rest of the handler.
GatherDone(s) ==
    LET cl0 == [calls EXCEPT ![Fwd(s)] = NoCalls]
        rest == Tail(sess[s].sentences)
    IN
    /\ sess[s].pc \in {"flush", "gather"}
    /\ GatherOver(calls, Fwd(s))
    /\ IF rest # <<>>
       THEN /\ sess' = [sess EXCEPT ![s].sentences = rest]
            /\ StartCalls(cl0, Fwd(s), Head(rest))
            /\ UNCHANGED <<accumulated_text, pending_translation_task,
                           timers>>
       ELSE IF sess[s].pc = "flush"
       THEN SegmentPhase(s, sess[s].final_text, timers, cl0)
       ELSE /\ TimerPhase(s, sess[s].remaining_text, timers, cl0)
            /\ UNCHANGED translatorVars
    /\ UNCHANGED <<translators, requested, segVars,
                   settings, last_final_transcript, nEvents,
                   published>>
    /\ UNCHANGED registryVars

\* An interim text merged into the accumulated text like a final one.
AfterInterimMerged(acc, interim_text) == MergedText(acc, Strip(interim_text))

\* Lines 415-435 assign none of entrypoint's nonlocals: the accumulated text
\* after an interim event is the one before.
AfterInterim(acc, interim_text) == acc

\* An INTERIM_TRANSCRIPT event: lines 415-433, up to the await of
\* publish_transcription; a text that is empty once stripped is only printed.
RecvInterim(s, text) ==
    /\ sess[s].pc = "recv"
    /\ sess' = IF Strip(text) # <<>>
               THEN [sess EXCEPT ![s].pc = "pub_interim"]
               ELSE sess
    /\ accumulated_text' = AfterInterim(accumulated_text, text)
    /\ UNCHANGED <<translators, requested, segVars,
                   message_history, context, settings,
                   last_final_transcript, pending_translation_task, timers,
                   calls, nEvents, dispatched, begun, published>>
    /\ UNCHANGED registryVars

\* publish_transcription of the interim segment returned or raised (lines
\* 433-435): the task waits for the next event.
InterimDone(s, ok) ==
    /\ sess[s].pc = "pub_interim"
    /\ sess' = [sess EXCEPT ![s].pc = "recv"]
    /\ UNCHANGED <<translators, requested, segVars,
                   message_history, context, settings,
                   accumulated_text, last_final_transcript,
                   pending_translation_task, timers, calls, nEvents,
                   dispatched, begun, published>>
    /\ UNCHANGED registryVars

\* The recognizer stream closed or raised: the async for ends (lines 537-539).
StreamEnd(s) ==
    /\ sess[s].pc = "recv"
    /\ sess' = [sess EXCEPT ![s].pc = "ended"]
    /\ UNCHANGED <<translators, requested, segVars,
                   message_history, context, settings,
                   accumulated_text, last_final_transcript,
                   pending_translation_task, timers, calls, nEvents,
                   dispatched, begun, published>>
    /\ UNCHANGED registryVars

(***************************************************************************)
(* _delayed_translation                                                    *)
(***************************************************************************)
\* asyncio.sleep(delay) returned: lines 396-400.  The text of a timer is
\* never blank (line 517) and the translators dict is never empty (line 327),
\* so _translate_sentences always reaches its gather.
TimerFire(k) ==
    /\ timers[k].st = "sleeping"
    /\ IF /\ pending_translation_task # 0
          /\ ~TaskCancelled(pending_translation_task)
       THEN /\ timers' = [timers EXCEPT ![k].st = "dispatching"]
            /\ StartCalls(calls, Timer(k), timers[k].text)
       ELSE /\ timers' = [timers EXCEPT ![k].st = "noop"]
            /\ UNCHANGED <<calls, translatorVars>>
    /\ UNCHANGED <<translators, requested, segVars, settings, accumulated_text,
                   last_final_transcript, pending_translation_task, sess,
                   nEvents, published>>
    /\ UNCHANGED registryVars

\* The timer's gather returned: line 401.
TimerDone(k) ==
    /\ timers[k].st = "dispatching"
    /\ GatherOver(calls, Timer(k))
    /\ timers' = [timers EXCEPT ![k].st = "fired"]
    /\ pending_translation_task' = 0
    /\ UNCHANGED <<translators, requested, segVars,
                   message_history, context, settings,
                   accumulated_text, last_final_transcript, sess, calls,
                   nEvents, dispatched, begun, published>>
    /\ UNCHANGED registryVars


(***************************************************************************)
(* Translator.translate, one call of a gather                              *)
(***************************************************************************)
\* The LLM stream ended: lines 245-249, then publish_transcription is awaited.
LLMReturn(o, l) ==
    LET m == TranslateEnd(l, Translation(l, Unit(o))) IN
    /\ calls[o][l] = "llm"
    /\ calls' = [calls EXCEPT ![o][l] = "pub"]
    /\ message_history' = [message_history EXCEPT ![l] = m[1]]
    /\ context' = [context EXCEPT ![l] = m[2]]
    /\ UNCHANGED <<translators, requested, segVars, settings, accumulated_text,
                   last_final_transcript, pending_translation_task, timers,
                   sess, nEvents, dispatched, begun, published>>
    /\ UNCHANGED registryVars

\* The LLM stream ended without any content: translated_message is "".
LLMReturnEmpty(o, l) ==
    LET m == TranslateEnd(l, <<>>) IN
    /\ calls[o][l] = "llm"
    /\ calls' = [calls EXCEPT ![o][l] = "pub_empty"]
    /\ message_history' = [message_history EXCEPT ![l] = m[1]]
    /\ context' = [context EXCEPT ![l] = m[2]]
    /\ UNCHANGED <<translators, requested, segVars, settings, accumulated_text,
                   last_final_transcript, pending_translation_task, timers,
                   sess, nEvents, dispatched, begun, published>>
    /\ UNCHANGED registryVars

\* translated_message of a call that awaits publish_transcription.
Translated(o, l) ==
    IF calls[o][l] = "pub_empty" THEN <<>> ELSE Translation(l, Unit(o))

\* The LLM call raised: the exception leaves translate (no handler in lines
\* 210-278) and gather keeps it as a result (return_exceptions=True).
LLMFail(o, l) ==
    /\ calls[o][l] = "llm"
    /\ calls' = [calls EXCEPT ![o][l] = "llm_failed"]
    /\ UNCHANGED <<translators, requested, segVars,
                   message_history, context, settings,
                   accumulated_text, last_final_transcript,
                   pending_translation_task, timers, sess, nEvents,
                   dispatched, begun, published>>
    /\ UNCHANGED registryVars

\* The LLM call never answers.
LLMHang(o, l) ==
    /\ calls[o][l] = "llm"
    /\ calls' = [calls EXCEPT ![o][l] = "hung"]
    /\ UNCHANGED <<translators, requested, segVars,
                   message_history, context, settings,
                   accumulated_text, last_final_transcript,
                   pending_translation_task, timers, sess, nEvents,
                   dispatched, begun, published>>
    /\ UNCHANGED registryVars

\* publish_transcription of the translated segment returned: lines 262-267.
PublishOk(o, l) ==
    /\ calls[o][l] \in {"pub", "pub_empty"}
    /\ calls' = [calls EXCEPT ![o][l] = "done"]
    /\ published' = [published EXCEPT ![l] = Append(@, Translated(o, l))]
    /\ UNCHANGED <<translators, requested, segVars,
                   message_history, context, settings,
                   accumulated_text, last_final_transcript,
                   pending_translation_task, timers, sess, nEvents,
                   dispatched, begun>>
    /\ broadcasts' = Append(broadcasts,
            NewBroadcast("translation", l, Translated(o, l)))
    /\ UNCHANGED <<connected_displays, displays>>

\* publish_transcription raised: the exception leaves translate.
PublishFail(o, l) ==
    /\ calls[o][l] \in {"pub", "pub_empty"}
    /\ calls' = [calls EXCEPT ![o][l] = "pub_failed"]
    /\ UNCHANGED <<translators, requested, segVars,
                   message_history, context, settings,
                   accumulated_text, last_final_transcript,
                   pending_translation_task, timers, sess, nEvents,
                   dispatched, begun, published>>
    /\ UNCHANGED registryVars

(***************************************************************************)
(* on_attributes_changed and the settings API                              *)
(***************************************************************************)
\* Lines 604 and 611 left out: a translator is created for every code that
\* has none.
NeedsTranslatorUnchecked(lang) == lang \notin translators

\* A translator is created for every supported language requested.
NeedsTranslatorAlways(lang) == lang \in languages /\ lang # source_language

\* Lines 604-611: the request is neither for the source language nor for a
\* language that has a translator, and the language is supported.
NeedsTranslator(lang) ==
    lang # source_language /\ lang \notin translators /\ lang \in languages

\* History: what the handler found for the request, and the message history
\* of the translator the language already had.
Request(lang) ==
    [lang |-> lang,
     found |-> IF lang = source_language THEN "source"
               ELSE IF lang \in translators THEN "existing"
               ELSE IF lang \in languages THEN "created"
               ELSE "unsupported",
     history |-> IF lang \in translators THEN message_history[lang]
                 ELSE <<>>]

\* on_attributes_changed with captions_language = lang: lines 602-642.
AttributesChanged(lang) ==
    /\ IF NeedsTranslator(lang)
       THEN /\ translators' = translators \cup {lang}
            /\ message_history' = [message_history EXCEPT ![lang] = <<>>]
            /\ context' = [context EXCEPT ![lang] = RebuildContext(lang, <<>>)]
       ELSE UNCHANGED <<translators, message_history, context>>
    /\ requested' = Append(requested, Request(lang))
    /\ UNCHANGED segVars
    /\ UNCHANGED <<settings, accumulated_text, last_final_transcript,
                   pending_translation_task, timers, sess, calls, nEvents,
                   dispatched, begun, published>>
    /\ UNCHANGED registryVars

\* update_llm_settings: current_settings.llm is replaced.
UpdateLLMSettings(enabled, n) ==
    /\ settings' = [context_enabled |-> enabled, context_sentences |-> n]
    /\ settings' # settings
    /\ UNCHANGED <<translators, requested, segVars,
                   message_history, context, accumulated_text,
                   last_final_transcript, pending_translation_task, timers,
                   sess, calls, nEvents, dispatched, begun, published>>
    /\ UNCHANGED registryVars

(***************************************************************************)
(* Specifications                                                          *)
(***************************************************************************)
\* LLMSettings(): context_enabled = True, context_sentences = 10.
DefaultSettings ==
    [context_enabled |-> TRUE, context_sentences |-> default_context_sentences]

\* entrypoint, lines 321-334, with no track subscribed yet: trs holds "nl",
\* the translator entrypoint creates, and the languages that participants
\* requested before the first track (on_attributes_changed).
InitPipeline(st, trs) ==
    /\ translators = trs
    /\ message_history = [l \in Langs |-> <<>>]
    /\ context = [l \in Langs |->
                    IF l \in trs THEN RebuildContext(l, <<>>) ELSE <<>>]
    /\ settings = st
    /\ accumulated_text = <<>>
    /\ last_final_transcript = <<>>
    /\ pending_translation_task = 0
    /\ timers = <<>>
    /\ sess = [s \in Sessions |-> [Receiving EXCEPT !.pc = "idle"]]
    /\ calls = [o \in {Fwd(s) : s \in Sessions} |-> NoCalls]
    /\ nEvents = 0
    /\ dispatched = [l \in Langs |-> <<>>]
    /\ begun = [l \in Langs |-> [policy |-> st, history |-> <<>>]]
    /\ published = [l \in languages |-> <<>>]
    /\ connected_displays = {}
    /\ displays = [w \in Displays |-> "new"]
    /\ broadcasts = <<>>
    /\ requested = <<>>

\* entrypoint's state, with _extract_complete_sentences not looked at on
\* its own.
InitWith(st, trs) ==
    /\ InitPipeline(st, trs)
    /\ seg_text = <<>>
    /\ seg_result = <<>>
    /\ seg_again = <<>>

Init == InitWith(DefaultSettings, {"nl"})

\* The pipeline of one subscribed track under the default settings: every
\* text of FinalTexts, LLM calls that answer or raise.
Next ==
    \/ TrackSubscribed(1)
    \/ \E text \in FinalTexts : RecvFinal(1, text)
    \/ PublishFinalDone(1, TRUE)
    \/ GatherDone(1)
    \/ StreamEnd(1)
    \/ \E k \in TimerIds : TimerFire(k)
    \/ \E k \in TimerIds : TimerDone(k)
    \/ \E o \in Owners, l \in Langs : LLMReturn(o, l)
    \/ \E o \in Owners, l \in Langs : LLMFail(o, l)
    \/ \E o \in Owners, l \in Langs : PublishOk(o, l)

Spec == Init /\ [][Next]_vars

\* Two subscribed tracks of one room, which share entrypoint's nonlocals and
\* its translators.
NextRoom ==
    \/ \E s \in Sessions : TrackSubscribed(s)
    \/ \E s \in Sessions, text \in RoomTexts :
            nEvents < MaxRoomEvents /\ RecvFinal(s, text)
    \/ \E s \in Sessions : PublishFinalDone(s, TRUE)
    \/ \E s \in Sessions : GatherDone(s)
    \/ \E k \in TimerIds : TimerFire(k)
    \/ \E k \in TimerIds : TimerDone(k)
    \/ \E o \in Owners, l \in Langs : LLMReturn(o, l)
    \/ \E o \in Owners, l \in Langs : PublishOk(o, l)

SpecRoom == Init /\ [][NextRoom]_vars

\* One track that delivers complete sentences, under every context policy
\* get_current_settings() can return, for one or two translators, with every
\* outcome of the LLM call and of publish_transcription.
InitTranslator ==
    \E enabled \in BOOLEAN, n \in 0..MaxPairs, trs \in {{"nl"}, Langs} :
        InitWith([context_enabled |-> enabled, context_sentences |-> n], trs)

NextTranslator ==
    \/ TrackSubscribed(1)
    \/ \E text \in SentenceTexts :
            nEvents < MaxSentenceEvents /\ RecvFinal(1, text)
    \/ PublishFinalDone(1, TRUE)
    \/ GatherDone(1)
    \/ \E l \in Langs : LLMReturn(Fwd(1), l)
    \/ \E l \in Langs : LLMFail(Fwd(1), l)
    \/ \E l \in Langs : LLMHang(Fwd(1), l)
    \/ \E l \in Langs : PublishOk(Fwd(1), l)
    \/ \E l \in Langs : PublishFail(Fwd(1), l)

SpecTranslator == InitTranslator /\ [][NextTranslator]_vars

\* The pipeline of one track when every sleep ends, every LLM stream and
\* every publish_transcription returns, and every task that can run is run.
NextLive ==
    \/ TrackSubscribed(1)
    \/ \E text \in FinalTexts : nEvents < MaxLiveEvents /\ RecvFinal(1, text)
    \/ PublishFinalDone(1, TRUE)
    \/ GatherDone(1)
    \/ StreamEnd(1)
    \/ \E k \in TimerIds : TimerFire(k)
    \/ \E k \in TimerIds : TimerDone(k)
    \/ \E o \in Owners : LLMReturn(o, "nl")
    \/ \E o \in Owners : PublishOk(o, "nl")

\* What the event loop runs by itself: the tasks that are ready.
Scheduled ==
    \/ PublishFinalDone(1, TRUE)
    \/ GatherDone(1)
    \/ \E k \in TimerIds : TimerFire(k)
    \/ \E k \in TimerIds : TimerDone(k)
    \/ \E o \in Owners : LLMReturn(o, "nl")
    \/ \E o \in Owners : PublishOk(o, "nl")

\* A run has finitely many events, so running some ready task whenever one
\* is ready runs every one of them.
SpecLive == Init /\ [][NextLive]_vars /\ WF_vars(Scheduled)

\* One track that delivers complete sentences to two translators whose LLM
\* streams end with a translation or with no content at all.
InitEmpty == InitWith(DefaultSettings, Langs)

NextEmpty ==
    \/ TrackSubscribed(1)
    \/ \E text \in SentenceTexts :
            nEvents < MaxSentenceEvents /\ RecvFinal(1, text)
    \/ PublishFinalDone(1, TRUE)
    \/ GatherDone(1)
    \/ \E l \in Langs : LLMReturn(Fwd(1), l)
    \/ \E l \in Langs : LLMReturnEmpty(Fwd(1), l)
    \/ \E l \in Langs : PublishOk(Fwd(1), l)

SpecEmpty == InitEmpty /\ [][NextEmpty]_vars

\* One track and the Dutch translator while display clients connect and
\* disconnect and the broadcast tasks run; publish_transcription may fail.
NextDisplays ==
    \/ TrackSubscribed(1)
    \/ \E text \in DisplayTexts :
            nEvents < MaxDisplayEvents /\ RecvFinal(1, text)
    \/ \E ok \in BOOLEAN : PublishFinalDone(1, ok)
    \/ GatherDone(1)
    \/ LLMReturn(Fwd(1), "nl")
    \/ PublishOk(Fwd(1), "nl")
    \/ PublishFail(Fwd(1), "nl")
    \/ \E w \in Displays : RegisterDisplay(w)
    \/ \E w \in Displays : DisplayClosed(w)
    \/ \E b \in BroadcastIds : BroadcastStart(b)
    \/ \E b \in BroadcastIds, w \in Displays, outcome \in SendOutcomes :
            BroadcastSend(b, w, outcome)
    \/ \E b \in BroadcastIds : BroadcastEnd(b)

SpecDisplays == Init /\ [][NextDisplays]_vars

\* One track that delivers complete sentences while participants request
\* caption languages: the source language, Dutch, English and a code the
\* languages table does not hold.
NextLanguages ==
    \/ TrackSubscribed(1)
    \/ \E text \in SentenceTexts :
            nEvents < MaxLanguageEvents /\ RecvFinal(1, text)
    \/ PublishFinalDone(1, TRUE)
    \/ GatherDone(1)
    \/ \E lang \in RequestedLangs :
            Len(requested) < MaxRequests /\ AttributesChanged(lang)
    \/ \E l \in Langs : LLMReturn(Fwd(1), l)
    \/ \E l \in Langs : PublishOk(Fwd(1), l)

SpecLanguages == Init /\ [][NextLanguages]_vars

\* _extract_complete_sentences on its own: every text of at most MaxLen
\* characters, segmented, and the result put together and segmented again.
SegChars == {"a", " ", ".", "?", "\n"}

SegTexts == UNION {[1..n -> SegChars] : n \in 0..MaxLen}

RECURSIVE Concat(_)
\* "".join(sentences)
Concat(sentences) ==
    IF sentences = <<>> THEN <<>>
    ELSE Head(sentences) \o Concat(Tail(sentences))

\* The sentences of a result followed by its remaining text.
Joined(result) == Concat(result[1]) \o result[2]

\* complete_sentences, remaining_text = _extract_complete_sentences(seg_text)
Segment ==
    /\ seg_result = <<>>
    /\ seg_result' = ExtractCompleteSentences(seg_text)
    /\ UNCHANGED <<seg_text, seg_again>>
    /\ UNCHANGED pipelineVars

\* _extract_complete_sentences("".join(complete_sentences) + remaining_text)
SegmentAgain ==
    /\ seg_result # <<>>
    /\ seg_again = <<>>
    /\ seg_again' = ExtractCompleteSentences(Joined(seg_result))
    /\ UNCHANGED <<seg_text, seg_result>>
    /\ UNCHANGED pipelineVars

InitSegment ==
    /\ InitPipeline(DefaultSettings, {"nl"})
    /\ seg_text \in SegTexts
    /\ seg_result = <<>>
    /\ seg_again = <<>>

NextSegment == Segment \/ SegmentAgain

SpecSegment == InitSegment /\ [][NextSegment]_vars

\* One track that delivers complete sentences to the Dutch translator while
\* the settings API replaces the LLM settings at any moment.
NextPolicy ==
    \/ TrackSubscribed(1)
    \/ \E text \in SentenceTexts :
            nEvents < MaxPolicyEvents /\ RecvFinal(1, text)
    \/ PublishFinalDone(1, TRUE)
    \/ GatherDone(1)
    \/ LLMReturn(Fwd(1), "nl")
    \/ PublishOk(Fwd(1), "nl")
    \/ \E enabled \in BOOLEAN, n \in 0..MaxPairs :
            UpdateLLMSettings(enabled, n)

SpecPolicy == Init /\ [][NextPolicy]_vars

\* One track whose recognizer revises what it delivered before, with LLM
\* streams and publishes that return.
NextRevision ==
    \/ TrackSubscribed(1)
    \/ \E text \in RevisionTexts :
            nEvents < MaxRevisionEvents /\ RecvFinal(1, text)
    \/ PublishFinalDone(1, TRUE)
    \/ GatherDone(1)
    \/ \E k \in TimerIds : TimerFire(k)
    \/ \E k \in TimerIds : TimerDone(k)
    \/ \E o \in Owners : LLMReturn(o, "nl")
    \/ \E o \in Owners : PublishOk(o, "nl")

SpecRevision == Init /\ [][NextRevision]_vars

\* One track and the Dutch translator when the LLM call and every
\* publish_transcription may raise, until the recognizer stream ends.
NextFailures ==
    \/ TrackSubscribed(1)
    \/ \E text \in DisplayTexts :
            nEvents < MaxFailureEvents /\ RecvFinal(1, text)
    \/ \E ok \in BOOLEAN : PublishFinalDone(1, ok)
    \/ GatherDone(1)
    \/ StreamEnd(1)
    \/ \E k \in TimerIds : TimerFire(k)
    \/ \E k \in TimerIds : TimerDone(k)
    \/ \E o \in Owners : LLMReturn(o, "nl")
    \/ \E o \in Owners : LLMFail(o, "nl")
    \/ \E o \in Owners : PublishOk(o, "nl")
    \/ \E o \in Owners : PublishFail(o, "nl")

SpecFailures == Init /\ [][NextFailures]_vars

\* One track whose recognizer delivers interim transcripts between the
\* final ones.
NextInterim ==
    \/ TrackSubscribed(1)
    \/ \E text \in FinalTexts :
            nEvents < MaxFinalEvents /\ RecvFinal(1, text)
    \/ \E text \in InterimTexts : RecvInterim(1, text)
    \/ \E ok \in BOOLEAN : InterimDone(1, ok)
    \/ PublishFinalDone(1, TRUE)
    \/ GatherDone(1)
    \/ \E k \in TimerIds : TimerFire(k)
    \/ \E k \in TimerIds : TimerDone(k)
    \/ \E o \in Owners : LLMReturn(o, "nl")
    \/ \E o \in Owners : PublishOk(o, "nl")

SpecInterim == Init /\ [][NextInterim]_vars

(***************************************************************************)
(* Properties                                                              *)
(***************************************************************************)
Elems(seq) == {seq[i] : i \in 1..Len(seq)}

\* The merge takes neither the extension, the containment nor the
\* single-word branch: final_text is unrelated to the buffer acc.
Unrelated(acc, final_text) ==
    /\ Strip(acc) # <<>>
    /\ ~StartsWith(final_text, Strip(acc))
    /\ ~Contains(final_text, Strip(acc))
    /\ WordCount(final_text) # 1

\* Session s replaces the buffer by an unrelated final text in this step.
TopicChange(s) ==
    \/ /\ sess[s].pc = "pub_final"
       /\ Unrelated(accumulated_text, sess[s].final_text)
       /\ sess'[s].pc \notin {"pub_final", "flush"}
    \/ /\ sess[s].pc = "flush"
       /\ sess'[s].pc # "flush"

\* The units the buffer acc holds: its complete sentences and its remainder.
UnitsOf(acc) ==
    LET ex == ExtractCompleteSentences(acc)
    IN  Elems(ex[1]) \cup (IF ex[2] # <<>> THEN {ex[2]} ELSE {})

\* C1: when an unrelated final text replaces a non-empty buffer, every
\* complete sentence of the buffer and its leftover remainder have been
\* dispatched to every translator by the end of that step.
C1_NoTextLostOnTopicChange ==
    [][\A s \in Sessions :
          TopicChange(s) =>
              \A l \in translators :
                  UnitsOf(accumulated_text) \subseteq Elems(dispatched'[l])]_vars

\* No translate call of language l is waiting on the LLM or on the publish.
Quiet(l) == \A o \in Owners : calls[o][l] \notin InFlight

\* C2: a translator publishes one unit for every unit dispatched to it, also
\* when its LLM call raised: once its calls are over, as many units are
\* published as were dispatched.
C2_OneOutputPerInput ==
    \A l \in Langs : Quiet(l) => Len(published[l]) = Len(dispatched[l])

\* The texts of the user turns of history h, in order.
RECURSIVE UserTexts(_)
UserTexts(h) ==
    IF h = <<>> THEN <<>>
    ELSE (IF Head(h)[1] = "user" THEN <<Head(h)[2]>> ELSE <<>>)
         \o UserTexts(Tail(h))

IsSuffix(a, b) ==
    Len(a) <= Len(b) /\ SubSeq(b, Len(b) - Len(a) + 1, Len(b)) = a

\* C3: with context_sentences = N >= 0 the history holds at most 2N entries
\* wherever translate yields or returns, and what it keeps are the most
\* recent entries.
C3_HistoryBound ==
    \A l \in Langs :
        /\ Len(message_history[l]) <= 2 * settings.context_sentences
        /\ IsSuffix(UserTexts(message_history[l]), dispatched[l])

\* C4: the request of a translate call is the system prompt, the retained
\* history, and the unit's text as its last user turn, under every policy.
C4_RequestEndsWithUnit ==
    \A s \in Sessions, l \in Langs :
        calls[Fwd(s)][l] \in {"llm", "hung"} =>
            /\ context[l] = <<SystemMessage(l)>> \o message_history[l]
            /\ context[l][Len(context[l])] = <<"user", Unit(Fwd(s))>>

\* At most one debounce timer is armed.
AtMostOneArmed == Cardinality({k \in TimerIds : Armed(k)}) <= 1

\* Timer k handed its remainder to the translators.
Dispatched(k) == timers[k].st \in {"dispatching", "fired", "aborted"}

\* C5: at most one timer is armed at any moment, and a timer whose delay
\* had not elapsed when a later non-duplicate final event arrived never
\* dispatches: only the remainder of the last event is dispatched.
C5_SingleTimerLastRemainder ==
    /\ AtMostOneArmed
    /\ \A k \in TimerIds : timers[k].over => ~Dispatched(k)

\* C6 as stated: after any final event has been handled, also an empty or a
\* repeated one, no timer created before that event is still armed.
C6_EveryFinalEventCancels ==
    \A k \in TimerIds : timers[k].processed # "none" => ~Armed(k)

\* C6, amended: after an accepted (non-empty, non-repeated) final event has
\* been handled no timer created before it is armed, so none fires later;
\* and a timer is only created with every older one cancelled or over.
C6_AcceptedEventCancels ==
    /\ \A k \in TimerIds : timers[k].processed = "accepted" => ~Armed(k)
    /\ AtMostOneArmed

\* C6 witness: an accepted final event cancelled a sleeping timer.
C6_Witness ==
    \E k \in TimerIds :
        timers[k].processed = "accepted" /\ timers[k].st = "cancelled"

\* The gather of session s waits only on the LLM call of one language,
\* which never answers; the calls of the other languages are over.
StalledOnHung(s) ==
    /\ sess[s].pc \in {"flush", "gather"}
    /\ Cardinality(translators) > 1
    /\ \E l \in translators :
        /\ calls[Fwd(s)][l] = "hung"
        /\ \A m \in translators \ {l} : calls[Fwd(s)][m] \in Over

\* C7: a hung LLM call of one language does not stall the session: its
\* forwarding task can go on to the next sentence or event.
C7_HungCallStallsOnlyItsUnit ==
    \A s \in Sessions : StalledOnHung(s) => ENABLED GatherDone(s)

\* user, assistant, user, assistant, ...
Alternates(h) ==
    \A i \in 1..Len(h) :
        h[i][1] = (IF i % 2 = 1 THEN "user" ELSE "assistant")

\* C8: a translator runs one translate call at a time, whoever dispatched
\* it, so its history alternates user and assistant turns (under the default
\* window, which trims nothing here).
C8_OneCallPerTranslator ==
    \A l \in Langs :
        /\ Cardinality({o \in Owners : calls[o][l] \in InFlight}) <= 1
        /\ Alternates(message_history[l])

\* C9: once the recognizer stream of a session has ended, no timer of that
\* session starts dispatching its remainder.
C9_NoDispatchAfterStreamEnd ==
    [][\A k \in TimerIds :
          (timers[k].st = "sleeping" /\ timers'[k].st = "dispatching") =>
              sess[timers[k].session].pc # "ended"]_vars

\* C10: no translate call that a timer started for its remainder is
\* cancelled: the remainder is published by every translator it was
\* dispatched to.
C10_TimerDispatchNotAborted ==
    \A k \in TimerIds, l \in Langs : calls[Timer(k)][l] # "cancelled"

\* Broadcast b returned.
Returned(b) == broadcasts[b].st = "returned"

\* C13: a display whose send failed during a broadcast is not in the
\* registry once that broadcast has returned, and never comes back (a
\* websocket registers once).
C13_FailedSubscriberRemoved ==
    \A b \in BroadcastIds :
        Returned(b) => Failed(b) \cap connected_displays = {}

\* C13 witness: a broadcast returned after a send to a display failed whose
\* connection is still open, so only the broadcast can have removed it.
C13_Witness ==
    \E b \in BroadcastIds :
        /\ Returned(b)
        /\ \E w \in Failed(b) : displays[w] = "open"

\* C14: a broadcast that returns has called send on exactly the displays
\* that were registered when its loop started, and its last step removes
\* from the registry the displays whose send failed in it and no other,
\* whatever was registered, closed or removed while it was suspended.
C14_SnapshotDelivery ==
    [][\A b \in BroadcastIds :
          (broadcasts[b].st = "sending" /\ broadcasts'[b].st = "returned") =>
              /\ Attempted(b) = broadcasts[b].present
              /\ connected_displays' = connected_displays \ Failed(b)]_vars

\* C14 witness: a broadcast in which a send failed has returned, and a
\* display that registered after its loop started is still registered.
C14_Witness ==
    \E b \in BroadcastIds :
        /\ Returned(b)
        /\ Failed(b) # {}
        /\ connected_displays \ broadcasts[b].present # {}

\* C15: no broadcast ends by an exception of a send, and one that returned
\* has called send on every display of its snapshot, those after a failed
\* send included.
C15_SendFailureContained ==
    \A b \in BroadcastIds :
        /\ broadcasts[b].st # "raised"
        /\ Returned(b) => broadcasts[b].todo = {}

\* C15 witness: a broadcast returned with a failed send to one display and
\* a delivery to another.
C15_Witness ==
    \E b \in BroadcastIds :
        /\ Returned(b)
        /\ Failed(b) # {}
        /\ broadcasts[b].delivered # {}

\* A broadcast task was created for this event.
Broadcast(message_type, language, text) ==
    \E b \in BroadcastIds :
        /\ broadcasts[b].type = message_type
        /\ broadcasts[b].language = language
        /\ broadcasts[b].text = text

\* C16: once the handler of an accepted final transcript is past the
\* publish of the source text, a "transcription" broadcast of that text was
\* created, and every translate call that got its translation has created
\* a "translation" broadcast of it, also when publish_transcription raised.
C16_EveryUnitBroadcast ==
    /\ \A s \in Sessions :
        (sess[s].pc \notin {"idle", "pub_final"}
            /\ last_final_transcript # <<>>) =>
                Broadcast("transcription", source_language,
                          last_final_transcript)
    /\ \A s \in Sessions, l \in Langs :
        calls[Fwd(s)][l] \in {"done", "pub_failed"} =>
            Broadcast("translation", l, Translation(l, Unit(Fwd(s))))

\* C11: a translate call that fails changes no other call of the same
\* gather, and the forwarding task goes on (next sentence, or the rest of
\* the handler) only when every call of the gather has finished or failed.
C11_FailureIsolated ==
    [][\A s \in Sessions :
          /\ \A l \in Langs :
                (calls[Fwd(s)][l] = "llm"
                    /\ calls'[Fwd(s)][l] = "llm_failed") =>
                    \A m \in Langs \ {l} :
                        calls'[Fwd(s)][m] = calls[Fwd(s)][m]
          /\ (sess[s].pc \in {"flush", "gather"} /\ sess'[s] # sess[s]) =>
                \A l \in Langs : calls[Fwd(s)][l] \notin InFlight]_vars

\* C11 witness: in one gather the call of one language failed and the call
\* of the other published its translation.
C11_Witness ==
    \E s \in Sessions, l \in Langs, m \in Langs :
        /\ calls[Fwd(s)][l] = "llm_failed"
        /\ calls[Fwd(s)][m] = "done"

\* No entry of seq is empty or equal to the one before it.
NoRepeat(seq) ==
    \A i \in 1..Len(seq) :
        seq[i] # <<>> /\ (i > 1 => seq[i] # seq[i - 1])

\* A final event was skipped in this step.
Skipped == nEvents' # nEvents /\ sess' = sess

\* C12: the published source texts never hold an empty text or the same
\* text twice in a row, and a final event that is skipped publishes
\* nothing, creates no broadcast, dispatches no unit and leaves the
\* accumulated text and the last final transcript as they were.
C12_DuplicateIgnored ==
    [][/\ NoRepeat(published'[source_language])
       /\ Skipped => UNCHANGED <<published, broadcasts, dispatched,
                                 accumulated_text, last_final_transcript,
                                 pending_translation_task, calls>>]_vars

\* C12 witness: after an accepted final transcript a later final event was
\* skipped.
C12_Witness ==
    /\ sess[1].pc = "recv"
    /\ Len(published[source_language]) >= 1
    /\ \E k \in TimerIds : timers[k].processed = "skipped"

\* C17: every translated text a translator publishes is non-empty, also
\* when the LLM stream ended with an empty result.
C17_NoEmptyTranslation ==
    \A l \in Langs : \A i \in 1..Len(published[l]) :
        Strip(published[l][i]) # <<>>

\* The remainder of timer k was handed to every translator.
DispatchedToAll(k) ==
    \A l \in translators : timers[k].text \in Elems(dispatched[l])

\* Timer k is asleep and no accepted final event has arrived since it was
\* created.
Undisturbed(k) ==
    k \in TimerIds /\ timers[k].st = "sleeping" /\ ~timers[k].over

\* Timer k was overtaken by an accepted final event before its delay had
\* elapsed, or it dispatched its remainder to every translator and either
\* finished, leaving no timer pending, or was cancelled by a later event.
Settled(k) ==
    /\ k \in TimerIds
    /\ \/ timers[k].over
       \/ /\ DispatchedToAll(k)
          /\ \/ timers[k].st = "fired" /\ pending_translation_task = 0
             \/ timers[k].st = "aborted"

\* C18: a timer armed for a remainder, with no accepted final event
\* arriving before its delay has elapsed, eventually dispatches the
\* remainder to every translator and finishes with no timer pending.
C18_RemainderEventuallyDispatched ==
    \A k \in 1..MaxEvents : Undisturbed(k) ~> Settled(k)

\* C18 witness: a timer that no event overtook has dispatched its remainder
\* and finished, and no timer is pending.
C18_Witness ==
    \E k \in TimerIds :
        /\ ~timers[k].over
        /\ timers[k].st = "fired"
        /\ DispatchedToAll(k)
        /\ pending_translation_task = 0

\* The track delivered "a b" and then, while the timer of "a b" was still
\* asleep, "a b.", which extends it.
ExtensionArrivedInTime ==
    /\ nEvents = 2
    /\ Len(timers) >= 1
    /\ timers[1].text = <<"a", " ", "b">>
    /\ timers[1].over
    /\ last_final_transcript = <<"a", " ", "b", ".">>

\* C19: when "a b." arrives before the delay of "a b" has elapsed, no unit
\* "a b" is ever dispatched; and once the event is handled exactly the unit
\* "a b." was dispatched, the buffer is empty and no timer is pending.
C19_ExtensionDispatchedOnce ==
    ExtensionArrivedInTime =>
        /\ <<"a", " ", "b">> \notin Elems(dispatched["nl"])
        /\ sess[1].pc = "recv" =>
              /\ dispatched["nl"] = << <<"a", " ", "b", ".">> >>
              /\ accumulated_text = <<>>
              /\ pending_translation_task = 0

\* C20: translators are never removed, and a language request leaves every
\* translator that exists, its message history and its context, as they
\* were: a language that has a translator never gets a second one.
C20_RegistrationIdempotent ==
    [][/\ translators \subseteq translators'
       /\ requested' # requested =>
             \A l \in translators :
                 /\ message_history'[l] = message_history[l]
                 /\ context'[l] = context[l]]_vars

\* C20 witness: a language that had a translator with translated turns was
\* requested again, and the translator still holds those turns.
C20_Witness ==
    \E i \in 1..Len(requested) :
        /\ requested[i].found = "existing"
        /\ requested[i].history # <<>>
        /\ message_history[requested[i].lang] = requested[i].history

\* C21: segmenting the sentences of a result followed by its remaining text
\* gives the same sentences and the same remaining text again.
C21_SegmentationFixedPoint ==
    seg_again # <<>> => seg_again = seg_result

\* C22: a text that ends with a newline is returned as complete sentences,
\* with nothing left as remaining text, and the empty text gives no sentence
\* and no remaining text.
C22_NewlineEndsSentence ==
    seg_result # <<>> =>
        /\ seg_text = <<>> => seg_result = << <<>>, <<>> >>
        /\ seg_text # <<>> /\ seg_text[Len(seg_text)] = "\n" =>
              seg_result[2] = <<>>

\* C23: when the LLM response of a translate call is handled while the
\* context is disabled, the translator's history is empty afterwards,
\* whatever it held, and it is still as the call left it when the call
\* returns.
C23_DisabledPolicyClearsHistory ==
    [][\A o \in DOMAIN calls, l \in Langs :
          /\ ( /\ calls[o][l] = "llm"
               /\ calls'[o][l] = "pub"
               /\ ~settings.context_enabled )
             => message_history'[l] = <<>>
          /\ (calls[o][l] = "pub" /\ calls'[o][l] = "done")
             => message_history'[l] = message_history[l]]_vars

\* C23 witness: a translate call that began with turns in the history has
\* returned under a disabled context, and the history is empty.
C23_Witness ==
    \E l \in translators :
        /\ calls[Fwd(1)][l] = "done"
        /\ ~settings.context_enabled
        /\ begun[l].history # <<>>
        /\ message_history[l] = <<>>

\* _maintain_context_window under the settings policy, on history h.
Trimmed(policy, h) ==
    IF ~policy.context_enabled THEN <<>>
    ELSE IF Len(h) > policy.context_sentences * 2
         THEN SliceLast(h, policy.context_sentences * 2)
    ELSE h

\* C29: the history a translate call leaves once its LLM response is handled
\* is the one the policy read when the call began gives, also when the
\* settings were changed while the call waited for the LLM.
C29_InFlightCallKeepsPolicy ==
    [][\A o \in DOMAIN calls, l \in Langs :
          (calls[o][l] = "llm" /\ calls'[o][l] = "pub") =>
              message_history'[l] =
                  Trimmed(begun[l].policy,
                          Append(message_history[l],
                                 <<"assistant", Translation(l, Unit(o))>>))]_vars

\* C24: the forwarding task hands a sentence to the translators only when no
\* translate call of its previous sentence is still running, and the
\* sentences of one final event are handed over in the order segmentation
\* produced them.
C24_SentencesInOrder ==
    [][\A l \in Langs :
          dispatched'[l] # dispatched[l] =>
              /\ \A m \in Langs :
                    calls[Fwd(1)][m] \notin {"llm", "hung", "pub", "pub_empty"}
              /\ dispatched'[l] =
                    Append(dispatched[l], Head(sess'[1].sentences))
              /\ sess[1].pc \in {"flush", "gather"} =>
                    sess'[1].sentences = Tail(sess[1].sentences)]_vars

\* C24 witness: the second sentence of a final event was handed to both
\* translators, one of which had failed on the first.
C24_Witness ==
    /\ translators = Langs
    /\ Len(sess[1].sentences) = 1
    /\ \A l \in Langs : Len(dispatched[l]) = 2 /\ calls[Fwd(1)][l] = "llm"
    /\ nEvents = 1
    /\ Len(published["nl"]) = 1
    /\ Len(published["en"]) = 0

\* C25: the buffer, the last final text and the pending timer belong to the
\* session whose timer is pending: a step of another session's forwarding
\* task does not change them, and neither does a step that is not a
\* forwarding task's (a timer's or a translate call's).
C25_SessionStateOwned ==
    [][/\ \A s \in Sessions :
            ( /\ sess'[s] # sess[s]
              /\ pending_translation_task # 0
              /\ timers[pending_translation_task].session # s )
            => UNCHANGED <<accumulated_text, last_final_transcript,
                           pending_translation_task>>
       /\ sess' = sess =>
            UNCHANGED <<accumulated_text, last_final_transcript,
                        pending_translation_task>>]_vars

\* How often x occurs in seq.
Count(seq, x) == Cardinality({i \in 1..Len(seq) : seq[i] = x})

\* C26: when the final event "a. b", whose sentence "a." was dispatched, is
\* followed by its longer revision "a. b c", which contains the sentence and
\* the buffered remainder "b", the sentence "a." is not dispatched again.
C26_RevisionNotDispatchedAgain ==
    ( /\ nEvents = 2
      /\ Len(published[source_language]) >= 1
      /\ published[source_language][1] = <<"a", ".", " ", "b">>
      /\ last_final_transcript = <<"a", ".", " ", "b", " ", "c">> )
    => Count(dispatched["nl"], <<"a", ".">>) <= 1

\* The timer of the final event "a b" dispatched its remainder and finished
\* before the next final event, "a b.", which extends it, arrived.
ExtensionAfterTimeout ==
    /\ nEvents = 2
    /\ Len(timers) >= 1
    /\ timers[1].text = <<"a", " ", "b">>
    /\ timers[1].st = "fired"
    /\ ~timers[1].over
    /\ last_final_transcript = <<"a", " ", "b", ".">>

\* C30: once a timer has dispatched the remainder "a b", a later final event
\* that extends it does not make the text "a b" reach the translator again:
\* at most one dispatched unit holds it.
C30_TimeoutTextDispatchedOnce ==
    ExtensionAfterTimeout =>
        Cardinality({i \in 1..Len(dispatched["nl"]) :
            Contains(dispatched["nl"][i], <<"a", " ", "b">>)}) <= 1

\* The forwarding task of session s awaits a gather none of whose translate
\* calls is still running, one of them having raised.
GatherFailed(s) ==
    /\ sess[s].pc \in {"flush", "gather"}
    /\ \A l \in Langs :
          calls[Fwd(s)][l] \notin {"llm", "hung", "pub", "pub_empty"}
    /\ \E l \in Langs : calls[Fwd(s)][l] \in {"llm_failed", "pub_failed"}

\* C27: a forwarding task whose translate calls raised goes on with its
\* handler, and a forwarding task ends only while it waits for the next
\* recognizer event, in a step that is neither a translate call's nor a
\* publish's.
C27_FailuresDoNotEndTask ==
    /\ [](\A s \in Sessions : GatherFailed(s) => ENABLED GatherDone(s))
    /\ [][\A s \in Sessions :
            (sess[s].pc # "ended" /\ sess'[s].pc = "ended") =>
                /\ sess[s].pc = "recv"
                /\ UNCHANGED <<calls, published>>]_vars

\* C27 witness: the task handles its second final event although the
\* publish of the first one raised and the translate call of the first one
\* raised too, so that nothing was published.
C27_Witness ==
    /\ sess[1].pc = "pub_final"
    /\ nEvents = 2
    /\ published[source_language] = <<>>
    /\ Len(dispatched["nl"]) >= 1
    /\ published["nl"] = <<>>
    /\ \A o \in Owners : calls[o]["nl"] \notin InFlight

\* Session s takes an interim event, or ends the handling of one, in this
\* step.
InterimStep(s) ==
    \/ sess[s].pc = "recv" /\ sess'[s].pc = "pub_interim"
    \/ sess[s].pc = "pub_interim" /\ sess'[s].pc = "recv"

\* C28: handling an interim event changes neither the accumulated text, the
\* last final text, the pending timer nor any translator's history, and
\* dispatches nothing.
C28_InterimLeavesAccumulator ==
    [][\A s \in Sessions :
          InterimStep(s) =>
              UNCHANGED <<accumulated_text, last_final_transcript,
                          pending_translation_task, timers, message_history,
                          dispatched, calls>>]_vars

\* C28 witness: an interim event is being handled while the accumulated
\* text holds a remainder and its timer is pending.
C28_Witness ==
    /\ sess[1].pc = "pub_interim"
    /\ accumulated_text = <<"a", " ", "b">>
    /\ pending_translation_task # 0

\* C31: when the LLM call of a translate call has raised, the translator's
\* history is the one the call found when it began, and it holds complete
\* pairs: no user turn is left without its assistant turn.
C31_FailedCallLeavesHistory ==
    \A l \in Langs :
        calls[Fwd(1)][l] = "llm_failed" =>
            /\ message_history[l] = begun[l].history
            /\ Len(message_history[l]) % 2 = 0

\* C32: the translators always include Dutch, never include the source
\* language and only hold codes of the languages table; a request for the
\* source language or for a code the table does not hold leaves them as
\* they were.
C32_TranslatorSetWellFormed ==
    /\ []( /\ "nl" \in translators
           /\ source_language \notin translators
           /\ translators \subseteq languages )
    /\ [][( /\ Len(requested') = Len(requested) + 1
            /\ requested'[Len(requested')].lang
                   \in {source_language} \cup (RequestedLangs \ languages) )
          => translators' = translators]_vars

\* C32 witness: the source language and an unsupported code were both
\* requested, and the translators are the ones entrypoint created.
C32_Witness ==
    /\ \E i \in 1..Len(requested) : requested[i].lang = source_language
    /\ \E i \in 1..Len(requested) : requested[i].lang \notin languages
    /\ translators = {"nl"}

=============================================================================
